---- MODULE Spec2Model ----
(***************************************************************************)
(* SubscriptionVault (src/index.js): a tree of MQTT subscriptions keyed by *)
(* topic path, with add, remove, findMatches and reset, and the two        *)
(* lifecycle callbacks onTopicAdded / onTopicRemoved.                      *)
(*                                                                         *)
(* The JavaScript object graph is modelled as a heap: every node object    *)
(* has an address, and the fields children, subscriptions and parent are   *)
(* each either absent (undefined) or present, as in the source.            *)
(***************************************************************************)
EXTENDS Integers, Sequences, FiniteSets, TLC

\* ------------------------------------------------------------------ bounds
\* Most node objects, besides the root, alive at the same time.
MaxNodes == 3
\* Most subscriptions stored in the whole tree at the same time.
MaxHeld == 2
\* Most node objects, besides the root, in the runs that look at the order of
\* the result of findMatches.
MaxOrderNodes == 5
\* Most subscriptions stored in the runs that register a handle repeatedly.
MaxRepeats == 3

\* The subscription handles (opaque references, compared with ===).
Handles == {"S", "T"}
\* "/" is the delimiter of topic strings.
Delimiter == "/"
\* The segments topics are built from: two literals and the two wildcards,
\* in the order object keys are listed in.
SegOrder == <<<<"a">>, <<"b">>, <<"+">>, <<"#">>>>
A == SegOrder[1]
B == SegOrder[2]
Plus == SegOrder[3]
Hash == SegOrder[4]
Segments == {SegOrder[i] : i \in 1..Len(SegOrder)}

\* ------------------------------------------------------------- topic text
RECURSIVE Join(_)
\* The topic string (a sequence of characters) whose segments are path.
Join(path) ==
  IF Len(path) = 1 THEN path[1]
  ELSE path[1] \o <<Delimiter>> \o Join(Tail(path))

\* The topic paths the operations are called with: literal topics of one
\* to three segments, and patterns with a wildcard in first and in last place.
Paths ==
  { <<A>>, <<A, B>>, <<A, B, A>>,
    <<Plus>>, <<A, Plus>>, <<Plus, B>>,
    <<Hash>>, <<A, Hash>> }

\* The topic strings the operations are called with.
Topics == {Join(p) : p \in Paths}

RECURSIVE Split(_, _, _)
\* String.prototype.split on the delimiter: cur is the segment being read,
\* done the segments already closed.
Split(str, cur, done) ==
  IF str = <<>> THEN Append(done, cur)
  ELSE IF Head(str) = Delimiter
       THEN Split(Tail(str), <<>>, Append(done, cur))
       ELSE Split(Tail(str), Append(cur, Head(str)), done)

\* topicToPath(topic): topic.split('/')
topicToPath(topic) == Split(topic, <<>>, <<>>)

\* Array.prototype.reverse
RECURSIVE Reverse(_)
Reverse(s) == IF s = <<>> THEN <<>> ELSE Append(Reverse(Tail(s)), Head(s))

\* ------------------------------------------------------------------- heap
\* Addresses of node objects; Root is the object this.subscriptionTree
\* refers to.
Root == 0
Addrs == 0..(IF MaxNodes > MaxOrderNodes THEN MaxNodes ELSE MaxOrderNodes)
\* The value of a parent field that is absent.
Undefined == -1

\* An object {} with no own fields.
NoChildren == [s \in {} |-> Root]
EmptyObject ==
  [hasChildren |-> FALSE, children |-> NoChildren,
   hasSubscriptions |-> FALSE, subscriptions |-> <<>>,
   parent |-> Undefined]

\* A new child whose parent is the root, whatever node it is created under.
NewChildOfRoot(node) == [EmptyObject EXCEPT !.parent = Root]

\* The object literal {parent: node} of add.
NewChild(node) == [EmptyObject EXCEPT !.parent = node]

\* The smallest address not in use.
FreeAddr(h) == CHOOSE a \in Addrs \ DOMAIN h : \A b \in Addrs \ DOMAIN h : a <= b

\* node.children[seg] is an object (not undefined).
HasChild(h, node, seg) == h[node].hasChildren /\ seg \in DOMAIN h[node].children

\* The destructuring default  subscriptions: x = []  read from object n.
SubsOf(h, n) == IF h[n].hasSubscriptions THEN h[n].subscriptions ELSE <<>>

RECURSIVE Closure(_, _)
\* The objects reachable from the set seen by children and parent references.
Closure(h, seen) ==
  LET kids == UNION {{h[n].children[s] : s \in DOMAIN h[n].children} : n \in seen}
      pars == {h[n].parent : n \in seen} \ {Undefined}
      more == seen \cup kids \cup pars
  IN  IF more = seen THEN seen ELSE Closure(h, more)

RECURSIVE Preorder(_, _, _)
\* The nodes below node through its keys SegOrder[k], SegOrder[k+1], ...,
\* each followed by its own subtree.
Preorder(h, node, k) ==
  IF k > Len(SegOrder) THEN <<>>
  ELSE (IF SegOrder[k] \in DOMAIN h[node].children
        THEN LET c == h[node].children[SegOrder[k]]
             IN  <<c>> \o Preorder(h, c, 1)
        ELSE <<>>) \o Preorder(h, node, k + 1)

RECURSIVE Ascending(_)
\* The addresses of a set, smallest first.
Ascending(set) ==
  IF set = {} THEN <<>>
  ELSE LET m == CHOOSE a \in set : \A b \in set : a <= b
       IN  <<m>> \o Ascending(set \ {m})

\* Garbage collection with compaction: the objects the root does not reach go,
\* and the others are renumbered in tree order (an address has no meaning
\* but its identity).
Collect(h) ==
  LET tree == <<Root>> \o Preorder(h, Root, 1)
      live == Closure(h, {Root})
      order == tree \o Ascending(live \ {tree[i] : i \in 1..Len(tree)})
      addr(n) == (CHOOSE i \in 1..Len(order) : order[i] = n) - 1
  IN  [a \in 0..(Len(order) - 1) |->
        [h[order[a + 1]] EXCEPT
           !.children = [s \in DOMAIN @ |-> addr(@[s])],
           !.parent = IF @ = Undefined THEN Undefined ELSE addr(@)]]

RECURSIVE NodeAt(_, _, _, _)
\* The node reached from node through the segments path[index], ..., or
\* Undefined when a segment has no child.
NodeAt(h, node, path, index) ==
  IF index > Len(path) THEN node
  ELSE IF HasChild(h, node, path[index])
       THEN NodeAt(h, h[node].children[path[index]], path, index + 1)
       ELSE Undefined

\* The subscriptions array stored at the node of topic, [] when there is none.
StoredAt(h, topic) ==
  LET n == NodeAt(h, Root, topicToPath(topic), 1)
  IN  IF n = Undefined THEN <<>> ELSE SubsOf(h, n)

\* ------------------------------------------------------------- callbacks
\* One invocation of a lifecycle callback with its argument.
Call(cb, topic) == [callback |-> cb, topic |-> topic]

\* What a callback that runs while the heap is h can read of the vault: the
\* subscriptions stored at topic, and whether the node of topic is reachable
\* from the root.
View(h, topic) ==
  [stored |-> StoredAt(h, topic),
   reachable |-> NodeAt(h, Root, topicToPath(topic), 1) # Undefined]

\* ------------------------------------------------------------------- add
RECURSIVE AddTraverse(_, _, _, _, _, _, _, _)
\* traverse() driven by add's callback, from the step at position index
\* (1-based) with the walk standing at node. full: the heap bound of the
\* model was reached (no address left for a new node). seen: what each
\* callback invoked so far could read when it ran.
AddTraverse(h, node, topic, topicPath, index, subscription, fired, seen) ==
  IF index > Len(topicPath)
  THEN [heap |-> h, fired |-> fired, seen |-> seen, full |-> FALSE]
  ELSE
    LET pathElement == topicPath[index]
        exists == HasChild(h, node, pathElement)
        full == ~exists /\ DOMAIN h = Addrs
        \* [pathElement]: child = {parent: node}
        child == IF exists THEN h[node].children[pathElement] ELSE FreeAddr(h)
        \* [pathElement]: {subscriptions: childSubscriptions = []} = {}
        childSubscriptions == IF exists THEN SubsOf(h, child) ELSE <<>>
        isLastPathElement == index = Len(topicPath)
        h1 == IF exists THEN h ELSE (child :> NewChild(node)) @@ h
        \* if (!node.children) node.children = {};
        \* node.children[pathElement] = child
        h2 == [h1 EXCEPT ![node].hasChildren = TRUE,
                         ![node].children = (pathElement :> child) @@ @]
        h3 == IF isLastPathElement
              THEN [h2 EXCEPT ![child].hasSubscriptions = TRUE,
                              ![child].subscriptions =
                                  Append(childSubscriptions, subscription)]
              ELSE h2
        notify == isLastPathElement /\ Len(childSubscriptions) = 0
        fired1 == IF notify
                  THEN Append(fired, Call("onTopicAdded", topic))
                  ELSE fired
        seen1 == IF notify THEN Append(seen, View(h3, topic)) ELSE seen
    IN  IF full
        THEN [heap |-> h, fired |-> fired, seen |-> seen, full |-> TRUE]
        ELSE AddTraverse(h3, child, topic, topicPath, index + 1,
                         subscription, fired1, seen1)

\* add that notifies on every call, whatever the node held.
addNotifiesAlways(h, topic, subscription) ==
  LET r == AddTraverse(h, Root, topic, topicToPath(topic), 1, subscription,
                       <<>>, <<>>)
  IN  [heap |-> IF r.full THEN h ELSE Collect(r.heap),
       fired |-> <<Call("onTopicAdded", topic)>>,
       seen |-> <<View(r.heap, topic)>>,
       full |-> r.full]

\* add(topic, subscription) on the heap h.
add(h, topic, subscription) ==
  LET r == AddTraverse(h, Root, topic, topicToPath(topic), 1, subscription,
                       <<>>, <<>>)
  IN  [heap |-> IF r.full THEN h ELSE Collect(r.heap), fired |-> r.fired,
       seen |-> r.seen, full |-> r.full]

\* ---------------------------------------------------------------- remove
\* The fresh object {} that the default  child = {}  makes: it is in no
\* children mapping and has no fields.
Fresh == -2

\* A filter that drops the first entry equal to subscription only.
FilterFirstOnly(subs, subscription) ==
  LET hits == {i \in 1..Len(subs) : subs[i] = subscription}
      first == CHOOSE i \in hits : \A j \in hits : i <= j
  IN  IF hits = {} THEN subs
      ELSE SubSeq(subs, 1, first - 1) \o SubSeq(subs, first + 1, Len(subs))

\* childSubscriptions.filter(sub => sub !== subscription)
Filter(subs, subscription) ==
  SelectSeq(subs, LAMBDA sub : sub # subscription)

\* childSubscriptions.includes(subscription)
Includes(subs, subscription) ==
  \E i \in 1..Len(subs) : subs[i] = subscription

RECURSIVE RemoveTraverse(_, _, _, _, _, _, _, _, _)
\* The first traverse() of remove, downwards, with remove's first callback.
\* threw: node.children[pathElement] was evaluated on a node whose children
\* field is undefined (a TypeError). seen: what each callback invoked so far
\* could read when it ran.
RemoveTraverse(h, node, topic, topicPath, index, subscription, fired, seen, nextNode) ==
  IF index > Len(topicPath)
  THEN [heap |-> h, fired |-> fired, seen |-> seen, threw |-> FALSE,
        nextNode |-> nextNode]
  ELSE
    LET pathElement == topicPath[index]
        exists == HasChild(h, node, pathElement)
        \* [pathElement]: child = {}
        child == IF exists THEN h[node].children[pathElement] ELSE Fresh
        childSubscriptions == IF exists THEN SubsOf(h, child) ELSE <<>>
        isLastPathElement == index = Len(topicPath)
        found == isLastPathElement /\ Includes(childSubscriptions, subscription)
        h1 == IF found
              THEN [h EXCEPT ![child].hasSubscriptions = TRUE,
                             ![child].subscriptions =
                                 Filter(childSubscriptions, subscription)]
              ELSE h
        \* child?.subscriptions?.length === 0
        emptied == /\ isLastPathElement
                   /\ exists
                   /\ h1[child].hasSubscriptions
                   /\ Len(h1[child].subscriptions) = 0
        fired1 == IF emptied
                  THEN Append(fired, Call("onTopicRemoved", topic))
                  ELSE fired
        seen1 == IF emptied THEN Append(seen, View(h1, topic)) ELSE seen
    IN  IF ~h1[node].hasChildren
        THEN [heap |-> h1, fired |-> fired1, seen |-> seen1, threw |-> TRUE,
              nextNode |-> child]
        ELSE IF ~exists
        THEN [heap |-> h1, fired |-> fired1, seen |-> seen1, threw |-> FALSE,
              nextNode |-> child]
        ELSE RemoveTraverse(h1, child, topic, topicPath, index + 1,
                            subscription, fired1, seen1, child)

\* A delete that empties the children mapping of parent.
DeleteEveryChild(h, parent, pathElement) ==
  [h EXCEPT ![parent].children = NoChildren]

\* delete parent.children[pathElement]
DeleteChild(h, parent, pathElement) ==
  [h EXCEPT ![parent].children =
      [s \in DOMAIN @ \ {pathElement} |-> @[s]]]

\* A pruning pass that looks at the node it starts from only.
PruneLeafOnly(h, node, path, index) ==
  IF node = Undefined \/ node = Fresh \/ Len(path) = 0
  THEN [heap |-> h, threw |-> FALSE]
  ELSE
    LET parent == h[node].parent
        empty == /\ ~h[node].hasChildren \/ DOMAIN h[node].children = {}
                 /\ Len(SubsOf(h, node)) = 0
    IN  IF empty /\ parent # Undefined /\ h[parent].hasChildren
        THEN [heap |-> [h EXCEPT ![parent].children =
                          [s \in DOMAIN @ \ {path[index]} |-> @[s]]],
              threw |-> FALSE]
        ELSE [heap |-> h, threw |-> FALSE]

RECURSIVE PruneTraverse(_, _, _, _)
\* The second traverse() of remove, upwards along parent, with the pruning
\* callback; path is the reversed topic path.
PruneTraverse(h, node, path, index) ==
  IF index > Len(path) \/ node = Undefined
  THEN [heap |-> h, threw |-> FALSE]
  ELSE IF node = Fresh
  \* {} has no parent: the default parent takes the delete, the walk ends
  THEN [heap |-> h, threw |-> FALSE]
  ELSE
    LET pathElement == path[index]
        parent == h[node].parent
        hasChildren == h[node].hasChildren /\ DOMAIN h[node].children # {}
        hasSubscriptions == Len(SubsOf(h, node)) > 0
        empty == ~hasChildren /\ ~hasSubscriptions
    IN  IF empty /\ parent # Undefined /\ ~h[parent].hasChildren
        THEN [heap |-> h, threw |-> TRUE]
        ELSE IF empty /\ parent # Undefined
        THEN PruneTraverse(DeleteChild(h, parent, pathElement), parent,
                           path, index + 1)
        ELSE PruneTraverse(h, parent, path, index + 1)

\* A remove that runs its pruning pass before it invokes onTopicRemoved.
removePrunesFirst(h, topic, subscription) ==
  LET topicPath == topicToPath(topic)
      down == RemoveTraverse(h, Root, topic, topicPath, 1, subscription,
                             <<>>, <<>>, Undefined)
      up == PruneTraverse(down.heap, down.nextNode, Reverse(topicPath), 1)
      late == [i \in DOMAIN down.fired |-> View(up.heap, topic)]
  IN  IF down.threw
      THEN [heap |-> down.heap, fired |-> down.fired, seen |-> down.seen,
            threw |-> TRUE]
      ELSE [heap |-> Collect(up.heap), fired |-> down.fired,
            seen |-> late, threw |-> up.threw]

\* remove(topic, subscription) on the heap h.
remove(h, topic, subscription) ==
  LET topicPath == topicToPath(topic)
      down == RemoveTraverse(h, Root, topic, topicPath, 1, subscription,
                             <<>>, <<>>, Undefined)
      up == PruneTraverse(down.heap, down.nextNode, Reverse(topicPath), 1)
  IN  IF down.threw
      THEN [heap |-> down.heap, fired |-> down.fired, seen |-> down.seen,
            threw |-> TRUE]
      ELSE [heap |-> Collect(up.heap), fired |-> down.fired,
            seen |-> down.seen, threw |-> up.threw]

\* ----------------------------------------------------------- findMatches
RECURSIVE findMatchesAnySegment(_, _, _, _, _)
\* A search that takes the '#' and '+' branches also where the segment of
\* the topic is itself '#' or '+'.
findMatchesAnySegment(h, node, topicPath, index, matchingSubscriptions) ==
  IF index > Len(topicPath) \/ node = Undefined
  THEN [threw |-> FALSE, matches |-> matchingSubscriptions]
  ELSE
    LET pathElement == topicPath[index]
        multiLevelSubs == IF HasChild(h, node, Hash)
                          THEN SubsOf(h, h[node].children[Hash])
                          ELSE <<>>
        nodeSubscriptions == IF HasChild(h, node, pathElement)
                             THEN SubsOf(h, h[node].children[pathElement])
                             ELSE <<>>
        m1 == matchingSubscriptions \o multiLevelSubs
        wildcard == IF HasChild(h, node, Plus)
                    THEN findMatchesAnySegment(h, h[node].children[Plus],
                           SubSeq(topicPath, index + 1, Len(topicPath)),
                           1, <<>>)
                    ELSE [threw |-> FALSE, matches |-> <<>>]
        m2 == m1 \o wildcard.matches
        m3 == IF index = Len(topicPath) THEN m2 \o nodeSubscriptions ELSE m2
    IN  IF wildcard.threw \/ ~h[node].hasChildren
        THEN [threw |-> TRUE, matches |-> <<>>]
        ELSE findMatchesAnySegment(h,
               IF pathElement \in DOMAIN h[node].children
               THEN h[node].children[pathElement] ELSE Undefined,
               topicPath, index + 1, m3)

RECURSIVE findMatchesDeepestFirst(_, _, _, _, _)
\* A search that puts the subscriptions of a '#' child in front of what it
\* has collected.
findMatchesDeepestFirst(h, node, topicPath, index, matchingSubscriptions) ==
  IF index > Len(topicPath) \/ node = Undefined
  THEN [threw |-> FALSE, matches |-> matchingSubscriptions]
  ELSE
    LET pathElement == topicPath[index]
        multiLevelSubs == IF HasChild(h, node, Hash)
                          THEN SubsOf(h, h[node].children[Hash])
                          ELSE <<>>
        nodeSubscriptions == IF HasChild(h, node, pathElement)
                             THEN SubsOf(h, h[node].children[pathElement])
                             ELSE <<>>
        m1 == IF Len(multiLevelSubs) > 0 /\ pathElement # Hash
              THEN multiLevelSubs \o matchingSubscriptions
              ELSE matchingSubscriptions
        wildcard == IF HasChild(h, node, Plus) /\ pathElement # Plus
                    THEN findMatchesDeepestFirst(h, h[node].children[Plus],
                           SubSeq(topicPath, index + 1, Len(topicPath)),
                           1, <<>>)
                    ELSE [threw |-> FALSE, matches |-> <<>>]
        m2 == m1 \o wildcard.matches
        m3 == IF index = Len(topicPath) THEN m2 \o nodeSubscriptions ELSE m2
    IN  IF wildcard.threw \/ ~h[node].hasChildren
        THEN [threw |-> TRUE, matches |-> <<>>]
        ELSE findMatchesDeepestFirst(h,
               IF pathElement \in DOMAIN h[node].children
               THEN h[node].children[pathElement] ELSE Undefined,
               topicPath, index + 1, m3)

RECURSIVE findMatchesByPath(_, _, _, _, _)
\* findMatchesByPath(topicPath, initialNode), from the step at position
\* index with the walk standing at node and matchingSubscriptions collected
\* so far. node = Undefined: the walk has stepped to an absent child, and
\* the remaining steps return at once. threw: node.children[pathElement]
\* was evaluated on a node whose children field is undefined.
findMatchesByPath(h, node, topicPath, index, matchingSubscriptions) ==
  IF index > Len(topicPath) \/ node = Undefined
  THEN [threw |-> FALSE, matches |-> matchingSubscriptions]
  ELSE
    LET pathElement == topicPath[index]
        \* '#': {subscriptions: multiLevelSubs = []} = {}
        multiLevelSubs == IF HasChild(h, node, Hash)
                          THEN SubsOf(h, h[node].children[Hash])
                          ELSE <<>>
        \* '+': singleLevel
        hasSingleLevel == HasChild(h, node, Plus)
        \* [pathElement]: {subscriptions: nodeSubscriptions = []} = {}
        nodeSubscriptions == IF HasChild(h, node, pathElement)
                             THEN SubsOf(h, h[node].children[pathElement])
                             ELSE <<>>
        isLastPathElement == index = Len(topicPath)
        m1 == IF Len(multiLevelSubs) > 0 /\ pathElement # Hash
              THEN matchingSubscriptions \o multiLevelSubs
              ELSE matchingSubscriptions
        recurse == hasSingleLevel /\ pathElement # Plus
        \* this.findMatchesByPath(topicPath.slice(index + 1), singleLevel)
        wildcard == IF recurse
                    THEN findMatchesByPath(h, h[node].children[Plus],
                           SubSeq(topicPath, index + 1, Len(topicPath)),
                           1, <<>>)
                    ELSE [threw |-> FALSE, matches |-> <<>>]
        m2 == m1 \o wildcard.matches
        m3 == IF isLastPathElement THEN m2 \o nodeSubscriptions ELSE m2
    IN  IF wildcard.threw
        THEN [threw |-> TRUE, matches |-> <<>>]
        ELSE IF ~h[node].hasChildren
        THEN [threw |-> TRUE, matches |-> <<>>]
        ELSE findMatchesByPath(h,
               IF pathElement \in DOMAIN h[node].children
               THEN h[node].children[pathElement] ELSE Undefined,
               topicPath, index + 1, m3)

\* findMatches(topic) on the heap h.
findMatches(h, topic) == findMatchesByPath(h, Root, topicToPath(topic), 1, <<>>)

\* A reset that keeps the tree.
resetKeepsTree(h) == h

\* reset() on the heap h: this.subscriptionTree = {}
reset(h) == (Root :> EmptyObject)

\* ------------------------------------------------------------ the machine
\* heap: the node objects reachable from this.subscriptionTree, by address.
\* last: the call made last, how it ended and which callbacks it invoked.
VARIABLES heap, last

vars == <<heap, last>>

\* The number of subscriptions stored in the tree.
Held(h) ==
  LET RECURSIVE Sum(_)
      Sum(set) == IF set = {} THEN 0
                  ELSE LET n == CHOOSE n \in set : TRUE
                       IN  Len(SubsOf(h, n)) + Sum(set \ {n})
  IN  Sum(DOMAIN h)

\* The record of a call: its arguments, whether it threw, the callbacks it
\* invoked in order, what it returned, and how many stored subscriptions it
\* took out of the tree; seen is filled in by add and remove with what each
\* of their callbacks could read.
Outcome(op, topic, subscription, threw, fired, matches, discarded) ==
  [op |-> op, topic |-> topic, subscription |-> subscription,
   threw |-> threw, fired |-> fired, seen |-> <<>>, matches |-> matches,
   discarded |-> discarded]

\* new SubscriptionVault({}): subscriptionTree = {}
Init ==
  /\ heap = (Root :> EmptyObject)
  /\ last = Outcome("new", <<>>, "", FALSE, <<>>, <<>>, 0)

\* A call of add that keeps the tree within nodes node objects and held
\* stored subscriptions.
AddWithin(nodes, held, topic, subscription) ==
  /\ Held(heap) < held
  /\ \E r \in {add(heap, topic, subscription)} :
      /\ ~r.full
      /\ Cardinality(DOMAIN r.heap) <= nodes + 1
      /\ heap' = r.heap
      /\ last' = [Outcome("add", topic, subscription, FALSE, r.fired, <<>>, 0)
                    EXCEPT !.seen = r.seen]

Add(topic, subscription) == AddWithin(MaxNodes, MaxHeld, topic, subscription)

Remove(topic, subscription) ==
  \E r \in {remove(heap, topic, subscription)} :
      /\ heap' = r.heap
      /\ last' = [Outcome("remove", topic, subscription, r.threw, r.fired,
                           <<>>, Held(heap) - Held(r.heap))
                    EXCEPT !.seen = r.seen]

FindMatches(topic) ==
  \E r \in {findMatches(heap, topic)} :
      /\ heap' = heap
      /\ last' = Outcome("findMatches", topic, "", r.threw, <<>>, r.matches, 0)

Reset ==
  /\ heap' = reset(heap)
  /\ last' = Outcome("reset", <<>>, "", FALSE, <<>>, <<>>, Held(heap))

Next ==
  \/ \E topic \in Topics, subscription \in Handles : Add(topic, subscription)
  \/ \E topic \in Topics, subscription \in Handles : Remove(topic, subscription)
  \/ \E topic \in Topics : FindMatches(topic)
  \/ Reset

Spec == Init /\ [][Next]_vars

\* Only add and remove calls, on a vault that starts empty.
NextAddRemove ==
  \/ \E topic \in Topics, subscription \in Handles : Add(topic, subscription)
  \/ \E topic \in Topics, subscription \in Handles : Remove(topic, subscription)

SpecAddRemove == Init /\ [][NextAddRemove]_vars

\* ------------------------------------------------- reading the registry
\* The nodes reachable from the root through children.
TreeNodes(h) ==
  LET tree == <<Root>> \o Preorder(h, Root, 1)
  IN  {tree[i] : i \in 1..Len(tree)}

\* How often callback cb was invoked with topic by the call recorded in o.
Invocations(o, cb, topic) ==
  Cardinality({i \in 1..Len(o.fired) : o.fired[i] = Call(cb, topic)})

\* No segment of path is a wildcard token.
IsLiteral(path) == \A i \in 1..Len(path) : path[i] \notin {Plus, Hash}

\* path holds a '+' segment.
HasPlus(path) == \E i \in 1..Len(path) : path[i] = Plus

\* The tree holds nothing: a fresh vault, or one that was just reset.
EmptyTree(h) == h = (Root :> EmptyObject)

\* ----------------------------------------------------------------- claims

\* C1: in a run of add and remove calls on a vault that starts empty, a call
\* invokes onTopicRemoved(t) exactly once when it takes topic t from one or
\* more stored subscriptions to none, and not at all otherwise.
C1_RemovedOncePerTransition ==
  [][\A t \in Topics :
       Invocations(last', "onTopicRemoved", t) =
         IF StoredAt(heap, t) # <<>> /\ StoredAt(heap', t) = <<>>
         THEN 1 ELSE 0]_vars

\* C2: add(t, S) invokes onTopicAdded(t) once, and nothing else, when the
\* node of t held no subscription before the call, and invokes nothing when
\* it held one; remove, findMatches and reset never invoke onTopicAdded.
C2_AddedOnFirstSubscriberOnly ==
  [][/\ last'.op = "add" =>
          last'.fired =
            IF StoredAt(heap, last'.topic) = <<>>
            THEN <<Call("onTopicAdded", last'.topic)>>
            ELSE <<>>
     /\ last'.op \in {"remove", "findMatches", "reset"} =>
          \A i \in 1..Len(last'.fired) :
            last'.fired[i].callback # "onTopicAdded"]_vars

\* C2 witness: a second subscriber was added to a topic, without a callback.
C2_SecondSubscriberAdded ==
  /\ last.op = "add"
  /\ last.fired = <<>>
  /\ Len(StoredAt(heap, last.topic)) = 2

\* C3: remove(t, S) with S not stored at t invokes no callback and leaves
\* the result of findMatches as it was, for every topic.
C3_RemoveUnregisteredIsNoOp ==
  [][(/\ last'.op = "remove"
      /\ ~Includes(StoredAt(heap, last'.topic), last'.subscription))
       => /\ last'.fired = <<>>
          /\ \A t \in Topics : findMatches(heap', t) = findMatches(heap, t)]_vars

\* pattern p, whose wildcards are all '+', matches the literal path t: the
\* same number of segments, and equal wherever p is not '+'.
PlusMatches(p, t) ==
  /\ Len(p) = Len(t)
  /\ \A i \in 1..Len(p) : p[i] = Plus \/ p[i] = t[i]

\* The patterns S is stored at.
PatternsOf(h, S) == {p \in Paths : Includes(StoredAt(h, Join(p)), S)}

\* C4: with S stored at a pattern p that holds '+' segments, findMatches of a
\* literal topic t of the same length that equals p outside the '+' places
\* returns S; and S is not returned when every pattern S is stored at holds
\* '+', holds no '#' and has another number of segments than t.
C4_PlusMatchesOneSegment ==
  last.op = "findMatches" =>
    LET t == topicToPath(last.topic)
    IN  IsLiteral(t) =>
          \A S \in Handles :
            /\ (\E p \in PatternsOf(heap, S) : HasPlus(p) /\ PlusMatches(p, t))
                 => ~last.threw /\ Includes(last.matches, S)
            /\ (/\ ~last.threw
                /\ PatternsOf(heap, S) # {}
                /\ \A p \in PatternsOf(heap, S) :
                     HasPlus(p) /\ Hash \notin {p[i] : i \in 1..Len(p)}
                       /\ Len(p) # Len(t))
                 => ~Includes(last.matches, S)

\* prefix is the start of path, segment by segment, and path goes on after it.
ProperPrefix(prefix, path) ==
  /\ Len(prefix) < Len(path)
  /\ SubSeq(path, 1, Len(prefix)) = prefix

\* The prefix P of a pattern P/#.
HashPrefix(p) == SubSeq(p, 1, Len(p) - 1)

\* p is a pattern P/# with a non-empty P.
IsHashPattern(p) == Len(p) > 1 /\ p[Len(p)] = Hash

\* C5: with S stored at a pattern P/#, findMatches(t) returns S for every t
\* that is P followed by one or more segments, whatever else is stored; and
\* does not return S when S is stored at P/# patterns only and none of their
\* prefixes starts t.
C5_HashMatchesRemainder ==
  last.op = "findMatches" =>
    LET t == topicToPath(last.topic)
    IN  \A S \in Handles :
          /\ (\E p \in PatternsOf(heap, S) :
                IsHashPattern(p) /\ ProperPrefix(HashPrefix(p), t))
               => ~last.threw /\ Includes(last.matches, S)
          /\ (/\ ~last.threw
              /\ PatternsOf(heap, S) # {}
              /\ \A p \in PatternsOf(heap, S) :
                   IsHashPattern(p) /\ ~ProperPrefix(HashPrefix(p), t))
               => ~Includes(last.matches, S)

\* C6: findMatches(t) called right after add(t, S) returns a sequence that
\* holds S.
C6_AddThenFindMatches ==
  [][(/\ last.op = "add"
      /\ last'.op = "findMatches"
      /\ last'.topic = last.topic)
       => ~last'.threw /\ Includes(last'.matches, last.subscription)]_vars

\* C7: findMatches on a vault whose tree is empty (fresh, or just reset)
\* returns the empty sequence.
C7_EmptyVaultMatchesNothing ==
  (last.op = "findMatches" /\ EmptyTree(heap))
    => ~last.threw /\ last.matches = <<>>

\* C8: in a state that holds a registration, findMatches and remove return
\* without raising, for every topic.
C8_NoThrowOnMissingPath ==
  [][(Held(heap) > 0 /\ last'.op \in {"findMatches", "remove"})
       => ~last'.threw]_vars

\* Node n has neither a child nor a subscription.
IsBare(h, n) ==
  /\ ~h[n].hasChildren \/ DOMAIN h[n].children = {}
  /\ Len(SubsOf(h, n)) = 0

\* C9: after every remove that returns, in a run of add and remove calls on
\* a vault that starts empty, no node but the root is reachable with neither
\* children nor subscriptions; when the call leaves no subscription in the
\* tree, the root is the only node left; the root has no parent to be
\* detached from.
C9_PrunedAfterRemove ==
  (last.op = "remove" /\ ~last.threw) =>
    /\ \A n \in TreeNodes(heap) \ {Root} : ~IsBare(heap, n)
    /\ Held(heap) = 0 => TreeNodes(heap) = {Root}
    /\ heap[Root].parent = Undefined

\* C9 witness: the only subscriber of a three-segment topic was removed, and
\* the nodes of the topic and of its prefixes are gone.
C9_ChainPruned ==
  /\ last.op = "remove"
  /\ ~last.threw
  /\ Len(topicToPath(last.topic)) = 3
  /\ last.discarded = 1
  /\ last.fired = <<Call("onTopicRemoved", last.topic)>>
  /\ TreeNodes(heap) = {Root}

\* C10: reset invokes no callback and leaves no subscription stored at any
\* topic; the add that follows a reset invokes onTopicAdded for its topic.
C10_ResetDiscardsSilently ==
  /\ [](last.op = "reset" =>
          /\ last.fired = <<>>
          /\ Held(heap) = 0
          /\ \A t \in Topics : StoredAt(heap, t) = <<>>)
  /\ [][(last.op = "reset" /\ last'.op = "add")
          => last'.fired = <<Call("onTopicAdded", last'.topic)>>]_vars

\* C10 witness: reset was called on a tree that held subscriptions.
C10_ResetOfRegistrations ==
  /\ last.op = "reset"
  /\ last.discarded > 0
  /\ EmptyTree(heap)

RECURSIVE Matches(_, _)
\* pattern p matches the topic path t segment by segment: a segment of p that
\* equals t's, '+' for exactly one segment, a final '#' for one or more
\* trailing segments.
Matches(p, t) ==
  IF p = <<>> THEN t = <<>>
  ELSE IF t = <<>> THEN FALSE
  ELSE IF Head(p) = Head(t) THEN Matches(Tail(p), Tail(t))
  ELSE IF Head(p) = Plus THEN Matches(Tail(p), Tail(t))
  ELSE Head(p) = Hash /\ Len(p) = 1

\* How often S occurs in the sequence subs.
Count(subs, S) == Cardinality({i \in 1..Len(subs) : subs[i] = S})

RECURSIVE Registrations(_, _, _, _)
\* The number of registrations of S in h at the patterns of the set among
\* that match the topic path t.
Registrations(h, S, t, among) ==
  IF among = {} THEN 0
  ELSE LET p == CHOOSE p \in among : TRUE
       IN  (IF Matches(p, t) THEN Count(StoredAt(h, Join(p)), S) ELSE 0)
             + Registrations(h, S, t, among \ {p})

\* C11: findMatches(t) returns S as often as S is registered at the patterns
\* that match t, when S is registered twice or more at t or at two or more
\* patterns that match t: nothing is deduplicated.
C11_NoDeduplication ==
  last.op = "findMatches" =>
    LET t == topicToPath(last.topic)
    IN  \A S \in Handles :
          (\/ Count(StoredAt(heap, last.topic), S) >= 2
           \/ Cardinality({p \in PatternsOf(heap, S) : Matches(p, t)}) >= 2)
            => /\ ~last.threw
               /\ Count(last.matches, S) = Registrations(heap, S, t, Paths)

\* Segment i of the path t is one of the wildcard tokens.
IsWildcardAt(t, i) == i \in 1..Len(t) /\ t[i] \in {Plus, Hash}

\* C12: when the queried topic t has '+' or '#' as a segment, findMatches(t)
\* returns no handle whose patterns all have a literal segment where t has
\* the token, and returns a handle registered at t only as often as it is
\* registered there.
C12_LiteralWildcardExclusion ==
  last.op = "findMatches" =>
    LET t == topicToPath(last.topic)
    IN  (\E i \in 1..Len(t) : IsWildcardAt(t, i)) =>
          \A S \in Handles :
            /\ (/\ PatternsOf(heap, S) # {}
                /\ \A p \in PatternsOf(heap, S) :
                     \E i \in 1..Len(p) :
                       IsWildcardAt(t, i) /\ p[i] \notin {Plus, Hash})
                 => ~Includes(last.matches, S)
            /\ PatternsOf(heap, S) = {t}
                 => /\ ~last.threw
                    /\ Count(last.matches, S) =
                         Count(StoredAt(heap, last.topic), S)

\* C15: with S stored at a pattern P/#, findMatches(P) returns S: the
\* multi-level wildcard also stands for no segment at all.
C15_HashMatchesParent ==
  last.op = "findMatches" =>
    LET t == topicToPath(last.topic)
    IN  \A S \in Handles :
          (\E p \in PatternsOf(heap, S) : IsHashPattern(p) /\ HashPrefix(p) = t)
            => ~last.threw /\ Includes(last.matches, S)

\* ------------------------------------------------ the order of the result
\* The patterns and topics of the runs that look at the order of the result
\* of findMatches: '#' patterns with prefixes of zero, one and two segments,
\* one of them with a '+', and a literal topic they all match.
OrderPaths ==
  { <<Hash>>, <<A, Hash>>, <<A, B, Hash>>, <<Plus, B, Hash>>, <<A, B, A>> }

OrderTopics == {Join(p) : p \in OrderPaths}

AddOrder(topic, subscription) ==
  AddWithin(MaxOrderNodes, MaxHeld, topic, subscription)

NextOrder ==
  \/ \E topic \in OrderTopics, subscription \in Handles :
       AddOrder(topic, subscription)
  \/ \E topic \in OrderTopics, subscription \in Handles :
       Remove(topic, subscription)
  \/ \E topic \in OrderTopics : FindMatches(topic)
  \/ Reset

SpecOrder == Init /\ [][NextOrder]_vars

\* The one pattern of OrderPaths that S is stored at is p.
OnlyAt(h, S, p) ==
  \A q \in OrderPaths : Includes(StoredAt(h, Join(q)), S) <=> q = p

\* Every occurrence of S in subs comes before every occurrence of T.
Before(subs, S, T) ==
  \A i, j \in 1..Len(subs) : (subs[i] = S /\ subs[j] = T) => i < j

\* p ends in '#'; the prefix before it may be empty.
EndsInHash(p) == p[Len(p)] = Hash

\* The depth at which the walk of findMatches from the root comes upon the
\* '#' pattern p: the position before its first '+' when it has one (the
\* branch into '+' is searched to its end there), the length of its prefix
\* otherwise.
FoundAt(p) ==
  IF HasPlus(p)
  THEN (CHOOSE i \in 1..Len(p) :
          p[i] = Plus /\ \A j \in 1..(i - 1) : p[j] # Plus) - 1
  ELSE Len(p) - 1

\* C13 as stated: in the result of findMatches(t), a handle matched through
\* a '#' pattern with a shorter prefix comes before a handle matched through
\* a '#' pattern with a longer prefix, with or without '+' segments, and a
\* handle registered at exactly t comes after the others.
C13_ShorterPrefixFirst ==
  (last.op = "findMatches" /\ ~last.threw) =>
    LET t == topicToPath(last.topic)
    IN  \A S, T \in Handles : \A p, q \in OrderPaths :
          (/\ S # T
           /\ OnlyAt(heap, S, p) /\ Matches(p, t) /\ p # t
           /\ OnlyAt(heap, T, q) /\ Matches(q, t))
            => /\ (EndsInHash(p) /\ EndsInHash(q) /\ q # t /\ Len(p) < Len(q))
                    => Before(last.matches, S, T)
               /\ q = t => Before(last.matches, S, T)

\* C13 amended: a handle matched through a '#' pattern comes before a handle
\* matched through a '#' pattern that the walk comes upon at a greater depth,
\* where a pattern with '+' counts with the position of its first '+', not
\* with the length of its prefix; a handle registered at exactly t comes
\* after the others.
C13_ShallowerDiscoveryFirst ==
  (last.op = "findMatches" /\ ~last.threw) =>
    LET t == topicToPath(last.topic)
    IN  \A S, T \in Handles : \A p, q \in OrderPaths :
          (/\ S # T
           /\ OnlyAt(heap, S, p) /\ Matches(p, t) /\ p # t
           /\ OnlyAt(heap, T, q) /\ Matches(q, t))
            => /\ (EndsInHash(p) /\ EndsInHash(q) /\ q # t
                     /\ FoundAt(p) < FoundAt(q))
                    => Before(last.matches, S, T)
               /\ q = t => Before(last.matches, S, T)

\* C13 witness: findMatches('a/b/a') returned the handle of 'a/#' and then
\* the handle of 'a/b/#'.
C13_TwoDepthsReturned ==
  /\ last.op = "findMatches"
  /\ ~last.threw
  /\ last.topic = Join(<<A, B, A>>)
  /\ \E S, T \in Handles :
       /\ OnlyAt(heap, S, <<A, Hash>>)
       /\ OnlyAt(heap, T, <<A, B, Hash>>)
       /\ last.matches = <<S, T>>

\* ---------------------------------------------------- a pre-built tree
\* The tree h in the documented shape of the subscriptionTree option: every
\* node holds children and subscriptions only, no parent field.
WithoutParents(h) == [a \in DOMAIN h |-> [h[a] EXCEPT !.parent = Undefined]]

\* The literal topics of the pre-built trees and of the calls made on them.
PrebuiltTopics == {Join(p) : p \in {q \in Paths : IsLiteral(q)}}

\* The trees of one or two registrations at these topics, in the documented
\* shape.
PrebuiltTrees ==
  LET one == {add((Root :> EmptyObject), t, S).heap :
                t \in PrebuiltTopics, S \in Handles}
      two == {add(h, t, S).heap :
                h \in one, t \in PrebuiltTopics, S \in Handles}
  IN  {WithoutParents(h) : h \in one \cup two}

\* new SubscriptionVault({subscriptionTree}) with a pre-built tree
InitPrebuilt ==
  /\ heap \in PrebuiltTrees
  /\ last = Outcome("new", <<>>, "", FALSE, <<>>, <<>>, 0)

NextPrebuilt ==
  \/ \E topic \in PrebuiltTopics, subscription \in Handles :
       Add(topic, subscription)
  \/ \E topic \in PrebuiltTopics, subscription \in Handles :
       Remove(topic, subscription)
  \/ \E topic \in PrebuiltTopics : FindMatches(topic)
  \/ Reset

SpecPrebuilt == InitPrebuilt /\ [][NextPrebuilt]_vars

\* C14: in a vault constructed from a pre-built tree without parent fields,
\* after a remove that took the last subscriber from its topic, no node but
\* the root is reachable with neither children nor subscriptions.
C14_PrebuiltTreePruned ==
  (/\ last.op = "remove"
   /\ ~last.threw
   /\ last.discarded > 0
   /\ StoredAt(heap, last.topic) = <<>>)
    => \A n \in TreeNodes(heap) \ {Root} : ~IsBare(heap, n)

\* C16: onTopicAdded(t) runs when the new subscription is already stored at
\* the node of t, as the last entry of the list the call leaves there;
\* onTopicRemoved(t) runs when the subscription is already out of the list
\* and the list is empty, while the node of t is still reachable from the
\* root, that is before the pruning pass.
C16_CallbacksInLine ==
  /\ Len(last.seen) = Len(last.fired)
  /\ last.op = "add" =>
       \A i \in 1..Len(last.fired) :
         last.fired[i] = Call("onTopicAdded", last.topic) =>
           /\ last.seen[i].reachable
           /\ last.seen[i].stored = StoredAt(heap, last.topic)
           /\ last.seen[i].stored[Len(last.seen[i].stored)] = last.subscription
  /\ last.op = "remove" =>
       \A i \in 1..Len(last.fired) :
         last.fired[i] = Call("onTopicRemoved", last.topic) =>
           /\ last.seen[i].reachable
           /\ last.seen[i].stored = <<>>

\* C16 witness: onTopicRemoved ran for the last subscriber of a topic while
\* the node of the topic was reachable, and the call left the node detached.
C16_SeenBeforePruning ==
  /\ last.op = "remove"
  /\ ~last.threw
  /\ last.discarded = 1
  /\ last.fired = <<Call("onTopicRemoved", last.topic)>>
  /\ last.seen[1].reachable
  /\ NodeAt(heap, Root, topicToPath(last.topic), 1) = Undefined

\* C17: whenever findMatches(t) returns, no handle occurs in the result
\* more often than it is registered at the patterns that match t; so a handle
\* that is registered at no matching pattern does not occur at all.
C17_NoFalsePositives ==
  (last.op = "findMatches" /\ ~last.threw) =>
    \A S \in Handles :
      Count(last.matches, S)
        <= Registrations(heap, S, topicToPath(last.topic), Paths)

\* C17 witness: findMatches returned one handle through a wildcard pattern
\* while the other handle is registered at patterns that do not match only.
C17_MatchAmongOthers ==
  /\ last.op = "findMatches"
  /\ ~last.threw
  /\ \E S, T \in Handles :
       /\ last.matches = <<S>>
       /\ PatternsOf(heap, T) # {}
       /\ \E p \in PatternsOf(heap, S) :
            p # topicToPath(last.topic) /\ Matches(p, topicToPath(last.topic))
       /\ \A q \in PatternsOf(heap, T) : ~Matches(q, topicToPath(last.topic))

RECURSIVE Without(_, _)
\* The sequence subs with every entry equal to S left out.
Without(subs, S) ==
  IF subs = <<>> THEN <<>>
  ELSE IF Head(subs) = S THEN Without(Tail(subs), S)
  ELSE <<Head(subs)>> \o Without(Tail(subs), S)

RECURSIVE StoredTotal(_, _)
\* The number of subscriptions stored at the topics of the set among.
StoredTotal(h, among) ==
  IF among = {} THEN 0
  ELSE LET u == CHOOSE u \in among : TRUE
       IN  Len(StoredAt(h, u)) + StoredTotal(h, among \ {u})

\* C18: in a run of add and remove calls on a vault that starts empty, the
\* list stored at the node of each topic follows the abstract map from topic
\* to sequence of handles: add(t, S) appends S to the list of t, remove(t, S)
\* takes every S out of the list of t, and the list of every other topic
\* stays as it is and stays reachable, pruning included; and no subscription
\* is stored at a node that is not the node of a topic.
C18_RefinesTopicMap ==
  /\ [][\A u \in Topics :
          StoredAt(heap', u) =
            IF u = last'.topic /\ last'.op = "add"
            THEN Append(StoredAt(heap, u), last'.subscription)
            ELSE IF u = last'.topic /\ last'.op = "remove"
            THEN Without(StoredAt(heap, u), last'.subscription)
            ELSE StoredAt(heap, u)]_vars
  /\ [](Held(heap) = StoredTotal(heap, Topics))

\* C18 witness: a remove took the only subscriber of a topic and pruned its
\* node, while a topic that shares its first segment keeps its subscriber.
C18_NeighbourKept ==
  /\ last.op = "remove"
  /\ ~last.threw
  /\ last.discarded = 1
  /\ NodeAt(heap, Root, topicToPath(last.topic), 1) = Undefined
  /\ \E u \in Topics :
       /\ u # last.topic
       /\ topicToPath(u)[1] = topicToPath(last.topic)[1]
       /\ StoredAt(heap, u) # <<>>

\* ------------------------------------------------ repeated registration
\* The topics of the runs that register a handle several times: a topic
\* and a topic below it.
RepeatPaths == {<<A>>, <<A, B>>}

RepeatTopics == {Join(p) : p \in RepeatPaths}

AddRepeat(topic, subscription) ==
  AddWithin(MaxNodes, MaxRepeats, topic, subscription)

NextRepeat ==
  \/ \E topic \in RepeatTopics, subscription \in Handles :
       AddRepeat(topic, subscription)
  \/ \E topic \in RepeatTopics, subscription \in Handles :
       Remove(topic, subscription)
  \/ \E topic \in RepeatTopics : FindMatches(topic)
  \/ Reset

SpecRepeat == Init /\ [][NextRepeat]_vars

\* The node of topic has a child.
HasChildrenAt(h, topic) ==
  LET n == NodeAt(h, Root, topicToPath(topic), 1)
  IN  n # Undefined /\ h[n].hasChildren /\ DOMAIN h[n].children # {}

\* C19 as stated: a remove(t, S) on a list of t that holds S twice or more
\* leaves no S at t; when the list held nothing but S the call invokes
\* onTopicRemoved(t) once and detaches the node of t; and a second
\* remove(t, S) changes nothing.
C19_RemoveAllAndPrune ==
  [][(/\ last'.op = "remove"
      /\ Count(StoredAt(heap, last'.topic), last'.subscription) >= 2)
       => /\ ~last'.threw
          /\ ~Includes(StoredAt(heap', last'.topic), last'.subscription)
          /\ Without(StoredAt(heap, last'.topic), last'.subscription) = <<>>
               => /\ last'.fired = <<Call("onTopicRemoved", last'.topic)>>
                  /\ NodeAt(heap', Root, topicToPath(last'.topic), 1)
                       = Undefined
          /\ remove(heap', last'.topic, last'.subscription).heap = heap']_vars

\* C19 amended: as above, but the node of t is detached when it has no
\* child, and is kept, with an empty list, when it has one.
C19_RemoveAllPruneChildless ==
  [][(/\ last'.op = "remove"
      /\ Count(StoredAt(heap, last'.topic), last'.subscription) >= 2)
       => /\ ~last'.threw
          /\ ~Includes(StoredAt(heap', last'.topic), last'.subscription)
          /\ Without(StoredAt(heap, last'.topic), last'.subscription) = <<>>
               => /\ last'.fired = <<Call("onTopicRemoved", last'.topic)>>
                  /\ (NodeAt(heap', Root, topicToPath(last'.topic), 1)
                        = Undefined)
                       <=> ~HasChildrenAt(heap, last'.topic)
          /\ remove(heap', last'.topic, last'.subscription).heap = heap']_vars

\* C19 witness: one remove took two entries of a handle out of a topic, ran
\* onTopicRemoved and left the node of the topic detached.
C19_TwoEntriesRemoved ==
  /\ last.op = "remove"
  /\ ~last.threw
  /\ last.discarded = 2
  /\ last.fired = <<Call("onTopicRemoved", last.topic)>>
  /\ NodeAt(heap, Root, topicToPath(last.topic), 1) = Undefined

RECURSIVE PruningWalk(_, _, _, _)
\* The nodes the upward walk of remove visits from node for the reversed
\* path, each with the segment it is paired with.
PruningWalk(h, node, path, index) ==
  IF index > Len(path) \/ node = Undefined THEN <<>>
  ELSE <<[node |-> node, segment |-> path[index]]>>
         \o PruningWalk(h, h[node].parent, path, index + 1)

\* C20: every node reachable from the root, other than the root, has as its
\* parent the node whose children mapping holds it; the root has no parent;
\* and the upward walk from the node of a stored topic visits the nodes of
\* the topic's prefixes, longest first, each with its own last segment.
C20_ParentIsContainer ==
  /\ heap[Root].parent = Undefined
  /\ \A n \in TreeNodes(heap) \ {Root} :
       /\ heap[n].parent \in TreeNodes(heap)
       /\ \E seg \in DOMAIN heap[heap[n].parent].children :
            heap[heap[n].parent].children[seg] = n
       /\ \A m \in TreeNodes(heap) :
            (\E seg \in DOMAIN heap[m].children : heap[m].children[seg] = n)
              => m = heap[n].parent
  /\ \A p \in Paths :
       NodeAt(heap, Root, p, 1) # Undefined =>
         PruningWalk(heap, NodeAt(heap, Root, p, 1), Reverse(p), 1) =
           [i \in 1..Len(p) |->
              [node |-> NodeAt(heap, Root, SubSeq(p, 1, Len(p) + 1 - i), 1),
               segment |-> p[Len(p) + 1 - i]]]

\* C20 witness: a topic of three segments is stored, so that a node, its
\* parent and its grandparent are reachable below the root.
C20_ThreeLevels ==
  /\ last.op = "add"
  /\ Len(topicToPath(last.topic)) = 3
  /\ \E n \in TreeNodes(heap) :
       /\ n = NodeAt(heap, Root, topicToPath(last.topic), 1)
       /\ heap[n].parent # Root
       /\ heap[heap[n].parent].parent # Root
       /\ heap[heap[heap[n].parent].parent].parent = Root

====
